---- MODULE Spec2Model ----
(***************************************************************************)
(* Model of generate_calendar.py: one run of main() fetches the listing    *)
(* page, walks the siblings of every /event-details/ anchor, parses the    *)
(* date texts, builds the calendar and writes docs/mary.ics.               *)
(*                                                                         *)
(* Text is modelled as a sequence of one-character strings, so that        *)
(* strip(), lower(), the DATE_RE match and strptime operate on characters. *)
(***************************************************************************)
EXTENDS Integers, Sequences, FiniteSets, TLC

\* ------------------------------------------------------------------ bounds
\* Longest arbitrary listing document, in sibling nodes.
MaxNodes == 3
\* Most event blocks of a well-formed listing document.
MaxEvents == 3
\* Number of consecutive runs of the script against the same output file.
MaxRuns == 2

\* --------------------------------------------------------------- characters
UpperSeq == <<"A", "B", "C", "D", "E", "F", "G", "H", "I", "J", "K", "L", "M", "N", "O", "P", "Q", "R", "S", "T", "U", "V", "W", "X", "Y", "Z">>
LowerSeq == <<"a", "b", "c", "d", "e", "f", "g", "h", "i", "j", "k", "l", "m", "n", "o", "p", "q", "r", "s", "t", "u", "v", "w", "x", "y", "z">>
DigitSeq == <<"0", "1", "2", "3", "4", "5", "6", "7", "8", "9">>

Range(f) == {f[i] : i \in DOMAIN f}
IsUpper(c) == c \in Range(UpperSeq)
IsLower(c) == c \in Range(LowerSeq)
IsDigit(c) == c \in Range(DigitSeq)
\* str.strip() and \s: whitespace characters
IsSpace(c) == c \in {" ", "\n", "\t"}

\* str.lower() on one character
CharLower(c) == IF IsUpper(c) THEN LowerSeq[CHOOSE i \in 1..26 : UpperSeq[i] = c] ELSE c
\* str.lower()
StrLower(s) == [i \in 1..Len(s) |-> CharLower(s[i])]

RECURSIVE LStrip(_)
LStrip(s) == IF s # <<>> /\ IsSpace(Head(s)) THEN LStrip(Tail(s)) ELSE s
RECURSIVE RStrip(_)
RStrip(s) == IF s # <<>> /\ IsSpace(s[Len(s)]) THEN RStrip(SubSeq(s, 1, Len(s) - 1)) ELSE s
\* str.strip() / get_text(strip=True) of a node holding one string
Strip(s) == RStrip(LStrip(s))

\* value of one decimal digit
DigitVal(c) == (CHOOSE i \in 1..10 : DigitSeq[i] = c) - 1
\* int() of a string of decimal digits
RECURSIVE Num(_)
Num(s) == IF s = <<>> THEN 0 ELSE 10 * Num(SubSeq(s, 1, Len(s) - 1)) + DigitVal(s[Len(s)])
AllDigits(s) == \A i \in 1..Len(s) : IsDigit(s[i])

\* substring test of the CSS attribute selector [href*="..."]
Contains(s, sub) == \E i \in 1..(Len(s) - Len(sub) + 1) : SubSeq(s, i, i + Len(sub) - 1) = sub

\* ---------------------------------------------------------------- constants
BASE_PAGE == <<"h", "t", "t", "p", "s", ":", "/", "/", "w", "w", "w", ".", "m", "a", "r", "y", "h", "a", "l", "v", "o", "r", "s", "o", "n", ".", "c", "o", "m", "/", "u", "p", "c", "o", "m", "i", "n", "g", "-", "d", "a", "t", "e", "s">>
EVENT_DETAILS == <<"/", "e", "v", "e", "n", "t", "-", "d", "e", "t", "a", "i", "l", "s", "/">>
LEARN_MORE == <<"l", "e", "a", "r", "n", " ", "m", "o", "r", "e">>
DURATION_HOURS == 2
\* the value None of date_str, venue, title before they are assigned
None == <<"None">>

\* DATE_RE body: [A-Z][a-z]{2} \d{1,2}, \d{4}, \d{1,2}:\d{2} [AP]M
DateReBody(s) ==
    \E dl \in 1..2, hl \in 1..2 :
        /\ Len(s) = 18 + dl + hl
        /\ IsUpper(s[1]) /\ IsLower(s[2]) /\ IsLower(s[3])
        /\ s[4] = " "
        /\ AllDigits(SubSeq(s, 5, 4 + dl))
        /\ s[5 + dl] = "," /\ s[6 + dl] = " "
        /\ AllDigits(SubSeq(s, 7 + dl, 10 + dl))
        /\ s[11 + dl] = "," /\ s[12 + dl] = " "
        /\ AllDigits(SubSeq(s, 13 + dl, 12 + dl + hl))
        /\ s[13 + dl + hl] = ":"
        /\ AllDigits(SubSeq(s, 14 + dl + hl, 15 + dl + hl))
        /\ s[16 + dl + hl] = " "
        /\ s[17 + dl + hl] \in {"A", "P"}
        /\ s[18 + dl + hl] = "M"

\* DATE_RE.match(s): ^ anchors at the start, $ at the end or before a final newline
DATE_RE(s) ==
    \/ DateReBody(s)
    \/ s # <<>> /\ s[Len(s)] = "\n" /\ DateReBody(SubSeq(s, 1, Len(s) - 1))

\* ------------------------------------------------------------- strptime
\* locale month abbreviations (%b), C locale, lower-cased as _strptime keeps them
MonthAbbr == << <<"j", "a", "n">>, <<"f", "e", "b">>, <<"m", "a", "r">>, <<"a", "p", "r">>, <<"m", "a", "y">>, <<"j", "u", "n">>,
                <<"j", "u", "l">>, <<"a", "u", "g">>, <<"s", "e", "p">>, <<"o", "c", "t">>, <<"n", "o", "v">>, <<"d", "e", "c">> >>
AM == <<"a", "m">>
PM == <<"p", "m">>
\* the ValueError strptime and the datetime constructor raise
ParseError == [exception |-> "ValueError"]
NoTz == "naive"

IsLeap(y) == y % 4 = 0 /\ (y % 100 # 0 \/ y % 400 = 0)
DaysInMonth(y, m) ==
    IF m = 2 THEN (IF IsLeap(y) THEN 29 ELSE 28)
    ELSE IF m \in {4, 6, 9, 11} THEN 30 ELSE 31

\* index after the run of whitespace starting at i (regex \s*)
RECURSIVE SkipSpaces(_, _)
SkipSpaces(s, i) == IF i <= Len(s) /\ IsSpace(s[i]) THEN SkipSpaces(s, i + 1) ELSE i

\* length of the 1-2 digit token at i that is followed by the character nxt, 0 if none
TokenLen(s, i, nxt) ==
    IF i + 1 <= Len(s) /\ IsDigit(s[i]) /\ s[i + 1] = nxt THEN 1
    ELSE IF i + 2 <= Len(s) /\ IsDigit(s[i]) /\ IsDigit(s[i + 1]) /\ s[i + 2] = nxt THEN 2
    ELSE 0

\* length of the 1-2 digit token at i that is followed by whitespace, 0 if none
TokenLenSp(s, i) ==
    IF i + 1 <= Len(s) /\ IsDigit(s[i]) /\ IsSpace(s[i + 1]) THEN 1
    ELSE IF i + 2 <= Len(s) /\ IsDigit(s[i]) /\ IsDigit(s[i + 1]) /\ IsSpace(s[i + 2]) THEN 2
    ELSE 0

\* datetime(year, month, day, hour, minute): the constructor's range checks
MakeDatetime(y, m, d, h, mi) ==
    IF y >= 1 /\ d >= 1 /\ d <= DaysInMonth(y, m)
    THEN [year |-> y, month |-> m, day |-> d, hour |-> h, minute |-> mi, tzinfo |-> NoTz]
    ELSE ParseError

\* a mis-conversion that leaves the %I hour as read
Hour24Ignored(hourI, ampm) == hourI
\* the hour strptime computes from the %I and %p groups
Hour24(hourI, ampm) ==
    IF ampm = AM THEN (IF hourI = 12 THEN 0 ELSE hourI)
    ELSE (IF hourI # 12 THEN hourI + 12 ELSE hourI)

\* datetime.strptime(s, "%b %d, %Y, %I:%M %p"): the format compiles to
\* (?P<b>jan|..|dec)\s+(?P<d>3[0-1]|[1-2]\d|0[1-9]|[1-9]| [1-9]),\s+(?P<Y>\d\d\d\d),
\* \s+(?P<I>1[0-2]|0[1-9]|[1-9]):(?P<M>[0-5]\d|\d)\s+(?P<p>am|pm), matched ignoring
\* case, and the match must consume the whole string.
Strptime(s) ==
    LET b   == StrLower(SubSeq(s, 1, 3))
        p1  == SkipSpaces(s, 4)
        dl  == TokenLen(s, p1, ",")
        p2  == p1 + dl + 1
        p3  == SkipSpaces(s, p2)
        p4  == p3 + 4
        p5  == p4 + 1
        p6  == SkipSpaces(s, p5)
        hl  == TokenLen(s, p6, ":")
        p7  == p6 + hl + 1
        ml  == TokenLenSp(s, p7)
        p8  == p7 + ml
        p9  == SkipSpaces(s, p8)
        shape ==
            /\ Len(s) >= 3 /\ b \in Range(MonthAbbr)
            /\ p1 > 4 /\ dl > 0
            /\ p3 > p2 /\ p4 <= Len(s) /\ AllDigits(SubSeq(s, p3, p4 - 1))
            /\ s[p4] = ","
            /\ p6 > p5 /\ hl > 0
            /\ ml > 0
            /\ p9 > p8 /\ p9 + 1 = Len(s)
            /\ StrLower(SubSeq(s, p9, p9 + 1)) \in {AM, PM}
    IN  IF ~shape THEN ParseError
        ELSE
        LET month == CHOOSE i \in 1..12 : MonthAbbr[i] = b
            day   == Num(SubSeq(s, p1, p1 + dl - 1))
            year  == Num(SubSeq(s, p3, p4 - 1))
            hourI == Num(SubSeq(s, p6, p6 + hl - 1))
            min   == Num(SubSeq(s, p7, p7 + ml - 1))
            ampm  == StrLower(SubSeq(s, p9, p9 + 1))
            hour  == Hour24(hourI, ampm)
        IN  IF /\ day \in 1..31
               /\ hourI \in 1..12
               /\ min \in 0..59
            THEN MakeDatetime(year, month, day, hour, min)
            ELSE ParseError

\* parse_naive_local(dt_str)
parse_naive_local(dt_str) == Strptime(dt_str)


\* ------------------------------------------------------------ the document
\* The listing page as BeautifulSoup presents it to the sibling walk: the nodes
\* of one container in document order.  A node is the parent element of an
\* anchor (tag "a": the anchor's href and text), another element (tag "el") or
\* a bare string between elements (tag "str").
ANode(href, text) == [tag |-> "a", href |-> href, text |-> text]
ElNode(text) == [tag |-> "el", href |-> <<>>, text |-> text]
StrNode(text) == [tag |-> "str", href |-> <<>>, text |-> text]

HREF_A == <<"/", "e", "v", "e", "n", "t", "-", "d", "e", "t", "a", "i", "l", "s", "/", "a">>
HREF_ABOUT == <<"/", "a", "b", "o", "u", "t">>
TITLE_GIG == <<"G", "i", "g">>
DATE_OK == <<"N", "o", "v", " ", "1", ",", " ", "2", "0", "2", "5", ",", " ", "7", ":", "0", "0", " ", "P", "M">>
DATE_BAD == <<"F", "e", "b", " ", "3", "0", ",", " ", "2", "0", "2", "5", ",", " ", "7", ":", "0", "0", " ", "P", "M">>
VENUE == <<"C", "r", "o", "c", "o", "d", "i", "l", "e", ",", " ", "S", "e", "a", "t", "t", "l", "e">>

AnchorGig == ANode(HREF_A, TITLE_GIG)
AnchorBlank == ANode(HREF_A, <<" ">>)
AnchorAbout == ANode(HREF_ABOUT, TITLE_GIG)
DateNode(d) == ElNode(d)
VenueNode == ElNode(VENUE)
LearnMoreNode == ElNode(<<"L", "e", "a", "r", "n", " ", "m", "o", "r", "e">>)
BlankNode == StrNode(<<"\n", " ">>)

\* date texts of every shape DATE_RE lets through, and one it does not
ProbeDates == {
    <<"D", "e", "c", " ", "3", "1", ",", " ", "1", "9", "9", "9", ",", " ", "1", "2", ":", "0", "0", " ", "A", "M">>, <<"J", "a", "n", " ", "0", "1", ",", " ", "2", "0", "2", "4", ",", " ", "1", "2", ":", "5", "9", " ", "P", "M">>,
    <<"F", "e", "b", " ", "2", "9", ",", " ", "2", "0", "2", "4", ",", " ", "1", "1", ":", "0", "5", " ", "A", "M">>, <<"F", "e", "b", " ", "2", "9", ",", " ", "2", "0", "2", "5", ",", " ", "1", ":", "0", "0", " ", "P", "M">>,
    <<"S", "e", "p", " ", "3", "1", ",", " ", "2", "0", "2", "5", ",", " ", "0", "9", ":", "3", "0", " ", "A", "M">>, <<"F", "o", "o", " ", "1", ",", " ", "2", "0", "2", "5", ",", " ", "7", ":", "0", "0", " ", "P", "M">>,
    <<"N", "o", "v", " ", "1", ",", " ", "2", "0", "2", "5", ",", " ", "0", ":", "0", "0", " ", "A", "M">>, <<"N", "o", "v", " ", "1", ",", " ", "2", "0", "2", "5", ",", " ", "1", "3", ":", "0", "0", " ", "P", "M">>,
    <<"N", "o", "v", " ", "1", ",", " ", "2", "0", "2", "5", ",", " ", "7", ":", "7", "5", " ", "P", "M">>, <<"N", "o", "v", " ", "0", ",", " ", "2", "0", "2", "5", ",", " ", "7", ":", "0", "0", " ", "P", "M">>,
    <<"N", "o", "v", " ", "1", ",", " ", "0", "0", "0", "0", ",", " ", "7", ":", "0", "0", " ", "P", "M">>, <<"N", "o", "v", " ", "1", ",", " ", "2", "0", "2", "5", ",", " ", "7", ":", "0", "0", " ", "p", "m">> }

NodeAlphabet == {AnchorGig, AnchorBlank, AnchorAbout, DateNode(DATE_OK),
                 VenueNode, LearnMoreNode, BlankNode}
\* every document of at most MaxNodes nodes
ShortDocs == UNION {[1..n -> NodeAlphabet] : n \in 0..MaxNodes}
\* one event block of a listing: title link, date line, venue line or "Learn more"
EventBlocks == {<<AnchorGig, DateNode(d), third>> :
                    d \in {DATE_OK, DATE_BAD}, third \in {VenueNode, LearnMoreNode}}
RECURSIVE Listings(_)
Listings(n) ==
    IF n = 0 THEN {<<>>}
    ELSE LET shorter == Listings(n - 1)
         IN  shorter \cup {b \o l : b \in EventBlocks, l \in {x \in shorter : Len(x) = 3 * (n - 1)}}
ProbeDocs == {<<AnchorGig, DateNode(d), VenueNode>> : d \in ProbeDates}
\* the response bodies the first run may receive
Docs == ShortDocs \cup Listings(MaxEvents) \cup ProbeDocs
\* the response bodies a later run may receive: the empty page and the one-event pages
RerunDocs == {<<>>} \cup {b : b \in EventBlocks}
DocsOf(run) == IF run = 1 THEN Docs ELSE RerunDocs

\* ------------------------------------------------------ fetch_event_blocks
\* a selector that takes every anchor
IsEventLinkAnyAnchor(n) == n.tag = "a"
\* soup.select('a[href*="/event-details/"]') matches this node's anchor
IsEventLink(n) == n.tag = "a" /\ Contains(n.href, EVENT_DETAILS)

\* a.get_text(strip=True)
GetText(n) == Strip(n.text)

\* lines 35-38: the text of a sibling, element or bare string
SibText(sib) == IF sib.tag = "str" THEN Strip(sib.text) ELSE GetText(sib)

\* a.parent.next_siblings
NextSiblings(d, i) == SubSeq(d, i + 1, Len(d))

\* a walk that stops after the first text found
RECURSIVE WalkFirstOnly(_, _, _)
WalkFirstOnly(sibs, k, found) ==
    IF k > Len(sibs) THEN found
    ELSE LET t == SibText(sibs[k])
         IN  IF t = <<>> THEN WalkFirstOnly(sibs, k + 1, found)
             ELSE IF StrLower(t) = LEARN_MORE THEN found
             ELSE Append(found, t)
\* a walk that does not stop at "learn more"
RECURSIVE WalkNoStop(_, _, _)
WalkNoStop(sibs, k, found) ==
    IF k > Len(sibs) THEN found
    ELSE LET t == SibText(sibs[k])
         IN  IF t = <<>> THEN WalkNoStop(sibs, k + 1, found)
             ELSE LET found2 == Append(found, t)
                  IN  IF Len(found2) >= 2 THEN found2 ELSE WalkNoStop(sibs, k + 1, found2)
\* the for-loop of lines 33-46 over sibs from position k with texts_found = found
RECURSIVE Walk(_, _, _)
Walk(sibs, k, found) ==
    IF k > Len(sibs) THEN found
    ELSE LET t == SibText(sibs[k])
         IN  IF t = <<>> THEN Walk(sibs, k + 1, found)
             ELSE IF StrLower(t) = LEARN_MORE THEN found
             ELSE LET found2 == Append(found, t)
                  IN  IF Len(found2) >= 2 THEN found2 ELSE Walk(sibs, k + 1, found2)

\* index of the first "/" at or after i, Len(s) + 1 if none
RECURSIVE FindSlash(_, _)
FindSlash(s, i) == IF i > Len(s) \/ s[i] = "/" THEN i ELSE FindSlash(s, i + 1)
\* index of the last "/" of s, 0 if none
RECURSIVE LastSlash(_, _)
LastSlash(s, i) == IF i = 0 \/ s[i] = "/" THEN i ELSE LastSlash(s, i - 1)
SCHEME_SEP == <<":", "/", "/">>
\* urljoin(base, href) for an absolute URL, an absolute path and a relative path
urljoin(base, href) ==
    IF Contains(href, SCHEME_SEP) THEN href
    ELSE IF href # <<>> /\ href[1] = "/"
         THEN LET host == CHOOSE i \in 1..Len(base) : SubSeq(base, i, i + 2) = SCHEME_SEP
              IN  SubSeq(base, 1, FindSlash(base, host + 3) - 1) \o href
         ELSE SubSeq(base, 1, LastSlash(base, Len(base))) \o href

\* a selection that drops an anchor whose href an earlier anchor had
LaterLinksDedup(d, i) ==
    {j \in (i + 1)..Len(d) :
        IsEventLink(d[j]) /\ \A k \in 1..(j - 1) : d[k].href # d[j].href}
\* indexes of the nodes after i that the selector matches
LaterLinks(d, i) == {j \in (i + 1)..Len(d) : IsEventLink(d[j])}
Min(S) == CHOOSE x \in S : \A y \in S : x <= y

\* lines 55-60: the yielded dict
Block(t, ds, v, u) == [title |-> t, date_str |-> ds, venue |-> v, url |-> u]

\* ------------------------------------------------------------ build_calendar
\* an event whose identity does not tell two equal records apart
NewEventSharedUid(b, start, uid) ==
    [name |-> b.title, begin |-> start, duration |-> [hours |-> DURATION_HOURS],
     location |-> b.venue, url |-> b.url, uid |-> 1]
\* lines 76-81: Event() draws a fresh uid; the fields the script assigns
NewEvent(b, start, uid) ==
    [name |-> b.title, begin |-> start, duration |-> [hours |-> DURATION_HOURS],
     location |-> b.venue, url |-> b.url, uid |-> uid]

\* cal.serialize(): one VEVENT per member of cal.events
VEvent(e) ==
    [SUMMARY |-> e.name, DTSTART |-> e.begin, DURATION |-> e.duration,
     LOCATION |-> e.location, URL |-> e.url, UID |-> e.uid]
Serialize(evs) == [vcalendar |-> {VEvent(e) : e \in evs}]

\* docs/mary.ics does not exist
NoFile == [missing |-> TRUE]
\* requests.get has not returned
NoResponse == [status_code |-> 0]
Running == [kind |-> "running"]
Returned(code) == [kind |-> "return", code |-> code]
Raised(exc) == [kind |-> "raise", exc |-> exc]

\* ------------------------------------------------------------------- state
VARIABLES
    pc,           \* position of the run: start, scan, listed, build, write, done
    runs,         \* number of the current run of the script
    requests,     \* requests.get calls issued by the current run
    r,            \* the response of requests.get
    soup,         \* the parsed listing document
    a,            \* index in soup of the anchor the for-loop of line 24 is at
    title, date_str, venue, details_url, texts_found,   \* locals of the loop body
    blocks,       \* the list main() collects from the generator
    bi,           \* index in blocks of the record build_calendar is at
    events,       \* cal.events
    added,        \* build_calendar's counter
    file,         \* content of OUTPUT_FILE
    result        \* how the current run ended

scanVars == <<a, title, date_str, venue, details_url, texts_found>>
buildVars == <<bi, events, added>>
vars == <<pc, runs, requests, r, soup, a, title, date_str, venue, details_url,
          texts_found, blocks, bi, events, added, file, result>>

\* the state of a process entering main()
Fresh ==
    /\ pc = "start"
    /\ requests = 0
    /\ r = NoResponse
    /\ soup = <<>>
    /\ a = 0
    /\ title = None /\ date_str = None /\ venue = None /\ details_url = None
    /\ texts_found = <<>>
    /\ blocks = <<>>
    /\ bi = 0 /\ events = {} /\ added = 0
    /\ result = Running

Init == Fresh /\ runs = 1 /\ file = NoFile

\* lines 19-21: the request succeeds and the body is parsed
FetchOk ==
    /\ pc = "start"
    /\ \E d \in DocsOf(runs) :
        /\ r' = [status_code |-> 200, text |-> d]
        /\ soup' = d
    /\ requests' = requests + 1
    /\ pc' = "scan"
    /\ UNCHANGED <<runs, scanVars, blocks, buildVars, file, result>>

\* a fetch that swallows the failure and asks again
FetchFailRetry ==
    /\ pc = "start"
    /\ requests < 2
    /\ requests' = requests + 1
    /\ r' = [status_code |-> 500]
    /\ UNCHANGED <<pc, runs, soup, scanVars, blocks, buildVars, file, result>>
\* lines 19-20: requests.get times out, or raise_for_status() raises; nothing
\* catches it and main() ends with the exception
FetchFail ==
    /\ pc = "start"
    /\ requests' = requests + 1
    /\ \/ r' = NoResponse /\ result' = Raised("Timeout")
       \/ \E sc \in {404, 500} : r' = [status_code |-> sc] /\ result' = Raised("HTTPError")
    /\ pc' = "done"
    /\ UNCHANGED <<runs, soup, scanVars, blocks, buildVars, file>>

\* lines 24-27: the next anchor has no title
ScanContinue ==
    /\ pc = "scan"
    /\ LaterLinks(soup, a) # {}
    /\ LET i == Min(LaterLinks(soup, a))
       IN  /\ GetText(soup[i]) = <<>>
           /\ a' = i
           /\ title' = <<>>
    /\ UNCHANGED <<pc, runs, requests, r, soup, date_str, venue, details_url,
                   texts_found, blocks, buildVars, file, result>>

\* lines 24-60: the next anchor has a title; walk its parent's siblings and
\* yield a record when the first text found is a date
ScanAnchor ==
    /\ pc = "scan"
    /\ LaterLinks(soup, a) # {}
    /\ LET i  == Min(LaterLinks(soup, a))
           tf == Walk(NextSiblings(soup, i), 1, <<>>)
           isDate == tf # <<>> /\ DATE_RE(tf[1])
           ds == IF isDate THEN tf[1] ELSE None
           v  == IF isDate THEN (IF Len(tf) > 1 THEN tf[2] ELSE <<>>) ELSE None
           u  == urljoin(BASE_PAGE, soup[i].href)
       IN  /\ GetText(soup[i]) # <<>>
           /\ a' = i
           /\ title' = GetText(soup[i])
           /\ details_url' = u
           /\ texts_found' = tf
           /\ date_str' = ds
           /\ venue' = v
           /\ blocks' = IF ds # None /\ ds # <<>>
                        THEN Append(blocks, Block(GetText(soup[i]), ds, v, u))
                        ELSE blocks
    /\ UNCHANGED <<pc, runs, requests, r, soup, buildVars, file, result>>

\* line 88: the generator is exhausted and list() returns
ScanEnd ==
    /\ pc = "scan"
    /\ LaterLinks(soup, a) = {}
    /\ pc' = "listed"
    /\ UNCHANGED <<runs, requests, r, soup, scanVars, blocks, buildVars, file, result>>

\* a return-2 path that has already opened the file for writing
NoEventsTruncate ==
    /\ pc = "listed"
    /\ blocks = <<>>
    /\ result' = Returned(2)
    /\ pc' = "done"
    /\ file' = Serialize({})
    /\ UNCHANGED <<runs, requests, r, soup, scanVars, blocks, buildVars>>
\* lines 89-91
NoEvents ==
    /\ pc = "listed"
    /\ blocks = <<>>
    /\ result' = Returned(2)
    /\ pc' = "done"
    /\ UNCHANGED <<runs, requests, r, soup, scanVars, blocks, buildVars, file>>

\* lines 93, 67-68: build_calendar is entered
BuildEnter ==
    /\ pc = "listed"
    /\ blocks # <<>>
    /\ events' = {}
    /\ added' = 0
    /\ bi' = 1
    /\ pc' = "build"
    /\ UNCHANGED <<runs, requests, r, soup, scanVars, blocks, file, result>>

\* a handler that leaves the loop at the first date that does not parse
BuildSkipBreak ==
    /\ pc = "build"
    /\ bi <= Len(blocks)
    /\ parse_naive_local(blocks[bi].date_str) = ParseError
    /\ bi' = Len(blocks) + 1
    /\ UNCHANGED <<pc, runs, requests, r, soup, scanVars, blocks, events, added, file, result>>
\* lines 70-74: the date of the record does not parse; warn and continue
BuildSkip ==
    /\ pc = "build"
    /\ bi <= Len(blocks)
    /\ parse_naive_local(blocks[bi].date_str) = ParseError
    /\ bi' = bi + 1
    /\ UNCHANGED <<pc, runs, requests, r, soup, scanVars, blocks, events, added, file, result>>

\* lines 70-83: the date parses; the event is added to the calendar
BuildAdd ==
    /\ pc = "build"
    /\ bi <= Len(blocks)
    /\ LET start == parse_naive_local(blocks[bi].date_str)
       IN  /\ start # ParseError
           /\ events' = events \cup {NewEvent(blocks[bi], start, bi)}
    /\ added' = added + 1
    /\ bi' = bi + 1
    /\ UNCHANGED <<pc, runs, requests, r, soup, scanVars, blocks, file, result>>

\* lines 84-85: the loop is over and build_calendar returns
BuildReturn ==
    /\ pc = "build"
    /\ bi > Len(blocks)
    /\ pc' = "write"
    /\ UNCHANGED <<runs, requests, r, soup, scanVars, blocks, buildVars, file, result>>

\* lines 94-98: the file is opened for writing, the calendar written, 0 returned
WriteFile ==
    /\ pc = "write"
    /\ file' = Serialize(events)
    /\ result' = Returned(0)
    /\ pc' = "done"
    /\ UNCHANGED <<runs, requests, r, soup, scanVars, blocks, buildVars>>

\* lines 100-101: the script is run again, against the file the last run left
NextRun ==
    /\ pc = "done"
    /\ runs < MaxRuns
    /\ runs' = runs + 1
    /\ pc' = "start"
    /\ requests' = 0
    /\ r' = NoResponse
    /\ soup' = <<>>
    /\ a' = 0
    /\ title' = None /\ date_str' = None /\ venue' = None /\ details_url' = None
    /\ texts_found' = <<>>
    /\ blocks' = <<>>
    /\ bi' = 0 /\ events' = {} /\ added' = 0
    /\ result' = Running
    /\ UNCHANGED file

Next ==
    \/ FetchOk
    \/ FetchFail
    \/ ScanContinue
    \/ ScanAnchor
    \/ ScanEnd
    \/ NoEvents
    \/ BuildEnter
    \/ BuildSkip
    \/ BuildAdd
    \/ BuildReturn
    \/ WriteFile
    \/ NextRun

Spec == Init /\ [][Next]_vars


\* =================================================================== claims
\* Notions the claims are stated in, defined on the document itself.
HasEventHref(n) == n.tag = "a" /\ Contains(n.href, EVENT_DETAILS)
\* stripped texts of the nodes after node i, in document order, empty ones dropped
TextsAfter(d, i) == [k \in 1..(Len(d) - i) |-> Strip(d[i + k].text)]
IsNonEmpty(t) == t # <<>>
NonEmptyAfter(d, i) == SelectSeq(TextsAfter(d, i), IsNonEmpty)
IsLearnMore(t) == StrLower(t) = LEARN_MORE
\* position in ne of the first "learn more", Len(ne) + 1 if there is none
FirstLearnMore(ne) ==
    IF \E k \in 1..Len(ne) : IsLearnMore(ne[k])
    THEN Min({k \in 1..Len(ne) : IsLearnMore(ne[k])})
    ELSE Len(ne) + 1
Parses(b) == parse_naive_local(b.date_str) # ParseError
ReturnedOk == pc = "done" /\ result = Returned(0)

\* C1: a run that ends without an exception returns 0 if build_calendar added at
\* least one event and 2 otherwise (in particular 2 when every record fails parsing).
C1_ResultReflectsAdded ==
    (pc = "done" /\ result \in {Returned(0), Returned(2)})
        => (result = Returned(0) <=> added >= 1)

\* C2: a listing document with no anchor whose href contains /event-details/
\* yields zero records, and main() returns 2 without raising.
C2_NoLinkReturns2 ==
    (r.status_code = 200 /\ \A i \in 1..Len(soup) : ~HasEventHref(soup[i]))
        => /\ blocks = <<>>
           /\ pc \in {"scan", "listed", "done"}
           /\ pc = "done" => result = Returned(2)
           /\ pc # "done" => result = Running
C2_Witness ==
    /\ pc = "done"
    /\ soup = <<AnchorAbout, DateNode(DATE_OK), VenueNode>>
    /\ result = Returned(2)

\* C3: in build_calendar a record whose date fails parsing is skipped: the run is
\* not aborted, no event is made of the record, and every record already passed
\* whose date parses, before or after a failing one, has its complete event.
C3_SkipAndContinue ==
    /\ pc \in {"build", "write"} =>
        /\ result = Running
        /\ \A i \in 1..(bi - 1) :
            IF Parses(blocks[i])
            THEN \E e \in events :
                    /\ e.uid = i
                    /\ e.name = blocks[i].title
                    /\ e.begin = parse_naive_local(blocks[i].date_str)
                    /\ e.location = blocks[i].venue
                    /\ e.url = blocks[i].url
            ELSE \A e \in events : e.uid # i
        /\ \A e \in events : e.begin # ParseError /\ e.uid \in 1..(bi - 1)
    /\ pc = "write" => bi = Len(blocks) + 1
    /\ result \in {Raised("Timeout"), Raised("HTTPError")} => bi = 0 /\ r.status_code # 200
C3_Witness ==
    /\ pc = "write"
    /\ \E i, j \in 1..Len(blocks) :
        /\ i < j
        /\ ~Parses(blocks[i])
        /\ Parses(blocks[j])
        /\ \E e \in events : e.uid = j

\* C4: for a date string matching DATE_RE, parse_naive_local gives the naive
\* timestamp with the string's year, month, day and minute and its hour read on
\* the 12-hour clock, or it fails and build_calendar catches the failure.
MonthNames == << <<"J", "a", "n">>, <<"F", "e", "b">>, <<"M", "a", "r">>, <<"A", "p", "r">>, <<"M", "a", "y">>, <<"J", "u", "n">>,
                 <<"J", "u", "l">>, <<"A", "u", "g">>, <<"S", "e", "p">>, <<"O", "c", "t">>, <<"N", "o", "v">>, <<"D", "e", "c">> >>
\* the components of a DATE_RE-matching string, cut at its commas, colon and spaces
Components(s) ==
    LET dl == IF s[6] = "," THEN 1 ELSE 2
        hl == IF s[14 + dl] = ":" THEN 1 ELSE 2
    IN  [mon  |-> SubSeq(s, 1, 3),
         day  |-> Num(SubSeq(s, 5, 4 + dl)),
         year |-> Num(SubSeq(s, 7 + dl, 10 + dl)),
         hour |-> Num(SubSeq(s, 13 + dl, 12 + dl + hl)),
         min  |-> Num(SubSeq(s, 14 + dl + hl, 15 + dl + hl)),
         pm   |-> s[17 + dl + hl] = "P"]
Reflects(dt, c) ==
    /\ dt.tzinfo = NoTz
    /\ dt.year = c.year
    /\ dt.month \in 1..12 /\ MonthNames[dt.month] = c.mon
    /\ dt.day = c.day
    /\ dt.minute = c.min
    /\ dt.hour = (c.hour % 12) + (IF c.pm THEN 12 ELSE 0)
C4_ParseReflectsOrFails ==
    pc \in {"build", "write", "done"} =>
        \A i \in 1..(bi - 1) :
            /\ DATE_RE(blocks[i].date_str)
            /\ \/ \E e \in events : e.uid = i /\ Reflects(e.begin, Components(blocks[i].date_str))
               \/ /\ \A e \in events : e.uid # i
                  /\ parse_naive_local(blocks[i].date_str) = ParseError
                  /\ result \in {Running, Returned(0)}
C4_Witness ==
    /\ pc = "write"
    /\ blocks[1].date_str = <<"J", "a", "n", " ", "0", "1", ",", " ", "2", "0", "2", "4", ",", " ", "1", "2", ":", "5", "9", " ", "P", "M">>
    /\ \E e \in events :
        e.begin = [year |-> 2024, month |-> 1, day |-> 1, hour |-> 12, minute |-> 59,
                   tzinfo |-> NoTz]

\* C5: an /event-details/ anchor with a title whose parent's first two non-empty
\* following sibling texts are [d, v], d matching DATE_RE and v not "learn more",
\* yields a record with date string d and venue v; if the first collected text
\* does not match DATE_RE the anchor yields no record.
C5_Step ==
    (pc = "scan" /\ a' # a /\ Strip(soup[a'].text) # <<>>) =>
        LET ne == NonEmptyAfter(soup, a')
        IN  /\ (Len(ne) >= 2 /\ DATE_RE(ne[1]) /\ ~IsLearnMore(ne[2])) =>
                /\ Len(blocks') = Len(blocks) + 1
                /\ SubSeq(blocks', 1, Len(blocks)) = blocks
                /\ blocks'[Len(blocks')].title = Strip(soup[a'].text)
                /\ blocks'[Len(blocks')].date_str = ne[1]
                /\ blocks'[Len(blocks')].venue = ne[2]
            /\ (ne # <<>> /\ ~IsLearnMore(ne[1]) /\ ~DATE_RE(ne[1])) => blocks' = blocks
C6_State ==
    (pc = "scan" /\ a > 0 /\ Strip(soup[a].text) # <<>>) =>
        LET ne == NonEmptyAfter(soup, a)
        IN  /\ Len(texts_found) <= 2
            /\ Len(texts_found) < FirstLearnMore(ne)
            /\ texts_found = SubSeq(ne, 1, Len(texts_found))
            /\ (ne # <<>> /\ IsLearnMore(ne[1])) => texts_found = <<>> /\ date_str = None
C6_Step ==
    (pc = "scan" /\ a' # a /\ Strip(soup[a'].text) # <<>>) =>
        LET ne == NonEmptyAfter(soup, a')
        IN  /\ (ne # <<>> /\ IsLearnMore(ne[1])) => blocks' = blocks
            /\ (Len(ne) >= 2 /\ DATE_RE(ne[1]) /\ IsLearnMore(ne[2])) =>
                /\ Len(blocks') = Len(blocks) + 1
                /\ blocks'[Len(blocks')].date_str = ne[1]
                /\ blocks'[Len(blocks')].venue = <<>>
C6_WalkStopsAtLearnMore == [](C6_State) /\ [][C6_Step]_vars
C6_Witness ==
    /\ pc = "scan"
    /\ a > 0
    /\ Len(NonEmptyAfter(soup, a)) >= 2
    /\ IsLearnMore(NonEmptyAfter(soup, a)[2])
    /\ texts_found = <<DATE_OK>>
    /\ blocks # <<>>
    /\ blocks[Len(blocks)].venue = <<>>

\* C7: after build_calendar the calendar holds exactly one event per record whose
\* date parsed, also when records are identical, and as many VEVENTs are written.
ParsedCount == Cardinality({i \in 1..Len(blocks) : Parses(blocks[i])})
C7_OneEventPerParsedRecord ==
    /\ pc = "write" => Cardinality(events) = ParsedCount /\ added = ParsedCount
    /\ ReturnedOk => /\ Cardinality(events) = ParsedCount
                     /\ Cardinality(file.vcalendar) = ParsedCount
C7_Witness ==
    /\ ReturnedOk
    /\ Len(blocks) = 3
    /\ blocks[1] = blocks[3]
    /\ ~Parses(blocks[2])
    /\ Cardinality(file.vcalendar) = 2

\* C8: the records yielded are, in document order and without deduplication, those
\* of the /event-details/ anchors with a non-empty title whose first collected
\* sibling text matches DATE_RE.
Candidates(d, upto) ==
    {i \in 1..upto :
        /\ HasEventHref(d[i])
        /\ Strip(d[i].text) # <<>>
        /\ NonEmptyAfter(d, i) # <<>>
        /\ DATE_RE(NonEmptyAfter(d, i)[1])}
RECURSIVE Ascending(_)
Ascending(S) == IF S = {} THEN <<>> ELSE <<Min(S)>> \o Ascending(S \ {Min(S)})
C8_DocumentOrderNoDedup ==
    r.status_code = 200 =>
        LET idx == Ascending(Candidates(soup, IF pc = "scan" THEN a ELSE Len(soup)))
        IN  /\ Len(blocks) = Len(idx)
            /\ \A k \in 1..Len(idx) :
                /\ blocks[k].title = Strip(soup[idx[k]].text)
                /\ blocks[k].date_str = NonEmptyAfter(soup, idx[k])[1]
                /\ blocks[k].url = urljoin(BASE_PAGE, soup[idx[k]].href)
C8_Witness ==
    /\ pc = "listed"
    /\ Len(blocks) = 2
    /\ blocks[1].url = blocks[2].url
    /\ blocks[1].title = blocks[2].title

\* C9: a network failure on the listing fetch ends the run with the exception:
\* one request was issued, none is retried, no code is returned and the output
\* file is left as it was.
C9_State ==
    /\ result \in {Raised("Timeout"), Raised("HTTPError")} =>
        requests = 1 /\ pc = "done" /\ r.status_code # 200
    /\ pc \notin {"start"} => requests = 1
C9_Step ==
    (pc = "start" /\ requests' > requests /\ r'.status_code # 200) =>
        /\ result' \in {Raised("Timeout"), Raised("HTTPError")}
        /\ pc' = "done"
        /\ file' = file
C9_NetworkFailureFatal == [](C9_State) /\ [][C9_Step]_vars
C9_Witness ==
    /\ pc = "done"
    /\ result = Raised("Timeout")
    /\ runs = 2
    /\ file # NoFile

\* C10: the file changes only in the last step of a run that returns 0, where it
\* becomes the serialization of that run's calendar alone; every other step, so
\* every run that returns 2, leaves it as it was.
C10_Step ==
    IF pc = "write"
    THEN /\ result' = Returned(0)
         /\ pc' = "done"
         /\ file' = Serialize(events)
         /\ \A v \in file'.vcalendar :
                \E i \in 1..Len(blocks) : v.UID = i /\ v.SUMMARY = blocks[i].title
                                          /\ v.URL = blocks[i].url
    ELSE file' = file
C10_FileWrittenOnlyOnSuccess ==
    [][C10_Step]_vars /\ [](ReturnedOk => file = Serialize(events))
C10_Witness ==
    /\ runs = 2
    /\ pc = "done"
    /\ result = Returned(2)
    /\ file # NoFile

====
